---- MODULE Spec2Model ----
(***************************************************************************)
(* Model of nightscout_mcp/server.py: the paginated range fetch            *)
(* (NightscoutClient.fetch_entries_in_range), the statistics reduction     *)
(* (filter_valid_sgv, calculate_stats) and the tools built on them         *)
(* (glucose_history, analyze, analyze_monthly, dispatched by call_tool).   *)
(*                                                                         *)
(* Timestamps are integers (epoch milliseconds in the code; the model      *)
(* draws them from small ranges).  Glucose values are integers in mg/dL.   *)
(* Values the code keeps as floats rounded to one decimal are kept as      *)
(* integers counted in tenths.                                             *)
(***************************************************************************)
EXTENDS Integers, Sequences, FiniteSets, TLC

VARIABLES
    source,          \* the records the Nightscout server holds
    server,          \* how the server answers a query: "honest", or the way
                     \* it misbehaves
    start_ts,        \* fetch_entries_in_range: parameter start_ts
    end_ts,          \* fetch_entries_in_range: parameter end_ts
    max_per_request, \* fetch_entries_in_range: parameter max_per_request
    all_entries,     \* fetch_entries_in_range: local all_entries
    current_end,     \* fetch_entries_in_range: local current_end
    iter,            \* number of iterations of `for _ in range(100)` begun,
                     \* which is the number of page requests issued
    entries,         \* fetch_entries_in_range: local entries (the last page)
    pc,              \* "loop" | "done" (all_entries returned) | "raised";
                     \* "fetch" when client.fetch is the method called
    exc,             \* the exception fetch_entries_in_range raised, or "none"
    nightscout_url,  \* NIGHTSCOUT_URL (process configuration)
    base_url,        \* client.base_url
    glucose_low,     \* GLUCOSE_LOW, mg/dL (process configuration)
    glucose_high,    \* GLUCOSE_HIGH, mg/dL (process configuration)
    sgv_values,      \* the caller's local sgv_values = filter_valid_sgv(entries)
    stats,           \* the caller's local stats = calculate_stats(sgv_values)
    spc,             \* statistics step: "idle" | "call" | "done"
    tool,            \* call_tool: the tool called, or "none"
    tpc,             \* the tool's position: "idle" | "start" | "fetch" | "done"
    now,             \* datetime.now(timezone.utc), in hours since the epoch
    args,            \* the tool's arguments
    month,           \* analyze_monthly: loop variable month
    rows,            \* analyze_monthly: the table rows written to text
    results,         \* analyze_monthly: local results
    outcome,         \* what call_tool returns
    requests,        \* history: page requests issued since the tool was called
    failed_at,       \* history: value of requests at the first failed request
    failed_months    \* history: months (0: no month) with a failed request

fetchVars == <<source, start_ts, end_ts, max_per_request, all_entries,
               current_end, iter, entries, pc, exc>>

configVars == <<server, nightscout_url, base_url, glucose_low, glucose_high>>

statsVars == <<sgv_values, stats, spc>>

toolVars == <<tool, tpc, now, args, month, rows, results, outcome>>

histVars == <<requests, failed_at, failed_months>>

vars == <<fetchVars, configVars, statsVars, toolVars, histVars>>

----------------------------------------------------------------------------
(* Bounds of the model and constants of the program *)

MaxPages == 100          \* server.py:214  for _ in range(100)
DefaultMaxPerRequest == 10000   \* server.py:209  max_per_request: int = 10000

MaxTs == 3               \* small sources: timestamps 0..MaxTs
MaxRecords == 4          \* small sources: at most this many records
MaxPageSize == 3         \* small sources: page sizes 1..MaxPageSize
MaxLargePage == 1        \* large sources: page sizes 1..MaxLargePage
MaxN == 6                \* statistics: lists of at most MaxN raw values
MaxRaw == 11             \* tools: at most MaxRaw entries in a window
MaxMonths == 2           \* analyze_monthly: at most MaxMonths months in a call
MaxStubborn == 3         \* misbehaving servers: sources of 1..MaxStubborn entries
MaxWriteTs == 4          \* concurrent writes: timestamps 0..MaxWriteTs
MaxInitial == 3          \* concurrent writes: at most this many entries at first
MaxInserts == 2          \* concurrent writes: at most this many insertions

GLUCOSE_MIN_VALID == 40  \* server.py:40
DefaultLow == 70         \* server.py:35  parse_glucose_value("GLUCOSE_LOW", 70)
DefaultHigh == 140       \* server.py:36  parse_glucose_value("GLUCOSE_HIGH", 140)

----------------------------------------------------------------------------
(* The data source: /api/v1/entries.json *)

\* One stored entry.  `id` stands for the document's _id: two entries may
\* carry the same date.
MkRecord(k, d, v) == [id |-> k, date |-> d, sgv |-> v]

\* Sources of at most MaxRecords entries with dates in 0..MaxTs, listed up
\* to renaming of ids (dates non-decreasing in id).
SmallSources ==
    UNION { { {MkRecord(k, f[k], 100) : k \in 1..n} :
                f \in {g \in [1..n -> 0..MaxTs] :
                          \A a, b \in 1..n : a < b => g[a] <= g[b]} } :
            n \in 0..MaxRecords }

\* A source of n entries, one at each timestamp 1..n.
DenseSource(n) == {MkRecord(k, k, 100) : k \in 1..n}

\* Inputs of one fetch_entries_in_range call: source, window, page size.
SmallInputs ==
    { [src |-> s, start |-> a, end |-> b, count |-> p] :
        s \in SmallSources, a \in 0..MaxTs, b \in 0..MaxTs, p \in 1..MaxPageSize }

LargeInputs ==
    { [src |-> DenseSource(MaxPages * p + d), start |-> a,
       end |-> MaxPages * p + d + 1, count |-> p] :
        p \in 1..MaxLargePage, d \in 0..1, a \in 0..1 }

FetchInputs == {x \in SmallInputs : x.start < x.end} \cup LargeInputs

\* The entries a query selects: find[date][$gte], find[date][$lt].
Matching(src, gte, lt) == {r \in src : r.date >= gte /\ r.date < lt}

MaxDate(S) == CHOOSE d \in {r.date : r \in S} : \A r \in S : r.date <= d
MinDate(S) == CHOOSE d \in {r.date : r \in S} : \A r \in S : r.date >= d

\* The sets of k entries the server may put on a page: the k newest ones;
\* among entries of equal date at the cut the choice is the server's.
RECURSIVE Pages(_, _)
Pages(M, k) ==
    IF k = 0 \/ M = {} THEN {{}}
    ELSE LET top == {r \in M : r.date = MaxDate(M)}
         IN  IF Cardinality(top) >= k
             THEN {T \in SUBSET top : Cardinality(T) = k}
             ELSE {top \cup rest : rest \in Pages(M \ top, k - Cardinality(top))}

\* A page as the JSON array sent: newest first (equal dates by id).
RECURSIVE PageSeq(_)
PageSeq(S) ==
    IF S = {} THEN <<>>
    ELSE LET r == CHOOSE x \in S : \A y \in S :
                     y.date < x.date \/ (y.date = x.date /\ y.id >= x.id)
         IN  <<r>> \o PageSeq(S \ {r})

\* The answers a source honouring the query may give to
\* count, find[date][$gte], find[date][$lt] (server.py:215-220).
Responses(src, gte, lt, count) ==
    {PageSeq(P) : P \in Pages(Matching(src, gte, lt), count)}

\* The answers to a request without a date filter: the count newest entries.
Latest(src, count) == {PageSeq(P) : P \in Pages(src, count)}

\* The ways a server may answer resp.json() at server.py:230.  A server that
\* is not honest ignores the date filter (the same newest entries on every
\* page), ignores count (one entry more than asked for), or sends full
\* pages of entries dated after the cursor it was given.
ServerModes == {"honest", "ignores_filter", "ignores_count", "rising"}

Answers(mode, src, gte, lt, count) ==
    IF mode = "honest" THEN Responses(src, gte, lt, count)
    ELSE IF mode = "ignores_filter" THEN Latest(src, count)
    ELSE IF mode = "ignores_count" THEN Responses(src, gte, lt, count + 1)
    ELSE {[k \in 1..count |-> MkRecord(k, lt + 1, 100)]}

----------------------------------------------------------------------------
(* NightscoutClient.fetch_entries_in_range, server.py:209-243 *)

Range(s) == {s[k] : k \in 1..Len(s)}

\* server.py:236  oldest_date = min(e["date"] for e in entries)
OldestDate(page) == MinDate(Range(page))

\* Mutant of LoopRuns: the ceiling is twice as high.
LoopRunsTwice(n) == n < 2 * MaxPages

\* Mutant of ShouldBreak: the lower-bound test is dropped.
ShouldBreakShortOnly(page, count, start) == Len(page) < count

\* server.py:238  len(entries) < max_per_request or oldest_date <= start_ts
ShouldBreak(page, count, start) ==
    Len(page) < count \/ OldestDate(page) <= start

\* Mutant of UpperBound: the cursor is included, as by $lte.
UpperBoundInclusive(cursor) == cursor + 1

\* server.py:218  "find[date][$lt]": current_end
UpperBound(cursor) == cursor

\* server.py:214  for _ in range(100)
LoopRuns(n) == n < MaxPages

\* server.py:223-224  client.get(f"{self.base_url}/api/v1/entries.json", ...):
\* the HTTP client sends a request only to an http:// or https:// URL with a
\* host, and raises without sending for any other URL.
HasPrefix(s, t) == Len(s) > Len(t) /\ SubSeq(s, 1, Len(t)) = t

Reachable(b) == HasPrefix(b, "http://") \/ HasPrefix(b, "https://")

\* What a request that gets no answer raises: the HTTP client's error for a
\* transport failure or a non-success status, or its error for a URL it does
\* not send to.
RequestError(b) == IF Reachable(b) THEN "HTTPError" ELSE "UnsupportedProtocol"

\* server.py:211-212: entry into the function.
BeginFetch(src, a, b, count) ==
    /\ source' = src
    /\ start_ts' = a
    /\ end_ts' = b
    /\ max_per_request' = count
    /\ all_entries' = <<>>
    /\ current_end' = b
    /\ iter' = 0
    /\ entries' = <<>>
    /\ pc' = "loop"
    /\ exc' = "none"

\* One iteration of the loop whose request succeeds (server.py:214-241),
\* with the return at server.py:243 when the loop ends.
FetchPage ==
    /\ pc = "loop"
    /\ LoopRuns(iter)
    /\ Reachable(base_url)
    /\ \E page \in Answers(server, source, start_ts, UpperBound(current_end),
                           max_per_request) :
         /\ entries' = page
         /\ iter' = iter + 1
         /\ requests' = requests + 1
         /\ IF page = <<>>
            THEN /\ all_entries' = all_entries
                 /\ current_end' = current_end
                 /\ pc' = "done"
            ELSE /\ all_entries' = all_entries \o page
                 /\ IF ShouldBreak(page, max_per_request, start_ts)
                    THEN /\ current_end' = current_end
                         /\ pc' = "done"
                    ELSE /\ current_end' = OldestDate(page)
                         /\ pc' = IF LoopRuns(iter + 1) THEN "loop" ELSE "done"
    /\ UNCHANGED <<source, start_ts, end_ts, max_per_request, exc>>
    /\ UNCHANGED <<configVars, statsVars, toolVars, failed_at, failed_months>>

\* Mutant of FetchFail: the failed request is swallowed and asked again.
FetchFailRetry ==
    /\ pc = "loop"
    /\ LoopRuns(iter)
    /\ iter' = iter + 1
    /\ pc' = "loop"
    /\ exc' = "none"
    /\ requests' = requests + 1
    /\ failed_at' = IF failed_at = 0 THEN requests + 1 ELSE failed_at
    /\ failed_months' = failed_months \cup {month}
    /\ UNCHANGED <<source, start_ts, end_ts, max_per_request, all_entries,
                   current_end, entries>>
    /\ UNCHANGED <<configVars, statsVars, toolVars>>

\* One iteration whose request fails: client.get raises (transport failure,
\* timeout) or resp.raise_for_status() raises (server.py:223-229).
FetchFail ==
    /\ pc = "loop"
    /\ LoopRuns(iter)
    /\ iter' = iter + 1
    /\ pc' = "raised"
    /\ exc' = RequestError(base_url)
    /\ requests' = requests + 1
    /\ failed_at' = IF failed_at = 0 THEN requests + 1 ELSE failed_at
    /\ failed_months' = failed_months \cup {month}
    /\ UNCHANGED <<source, start_ts, end_ts, max_per_request, all_entries,
                   current_end, entries>>
    /\ UNCHANGED <<configVars, statsVars, toolVars>>

----------------------------------------------------------------------------
(* filter_valid_sgv and calculate_stats, server.py:94-139 *)

\* Python's None, and the value of a local not yet assigned.
None == [none |-> TRUE]
Unset == [unset |-> TRUE]

\* The target ranges the process may be configured with (GLUCOSE_LOW,
\* GLUCOSE_HIGH in mg/dL); the first is the default.
TargetRanges == {<<DefaultLow, DefaultHigh>>, <<63, 140>>, <<70, 200>>, <<80, 180>>}

\* server.py:96-99: e.get("sgv") is falsy for a missing or zero value.
FilterValidSgv(es) ==
    LET keep(e) == e.sgv # 0 /\ e.sgv >= GLUCOSE_MIN_VALID
        kept == SelectSeq(es, keep)
    IN  [k \in 1..Len(kept) |-> kept[k].sgv]

RECURSIVE SumSeq(_)
SumSeq(s) == IF s = <<>> THEN 0 ELSE Head(s) + SumSeq(Tail(s))

MinSeq(s) == CHOOSE v \in Range(s) : \A w \in Range(s) : v <= w
MaxSeq(s) == CHOOSE v \in Range(s) : \A w \in Range(s) : v >= w

\* num / den rounded to the nearest integer, ties to the even one, as
\* Python's round does (num >= 0, den > 0).
RoundHalfEven(num, den) ==
    LET q == num \div den
        r == num % den
    IN  IF 2 * r < den THEN q
        ELSE IF 2 * r > den THEN q + 1
        ELSE IF q % 2 = 0 THEN q ELSE q + 1

\* round(num / den, 1), counted in tenths.
Round1(num, den) == RoundHalfEven(10 * num, den)

\* server.py:132-137  round(count / n * 100, 1), in tenths of a percent.
Pct(count, n) == Round1(count * 100, n)

\* Mutant of IsLow: the upper edge 70 is counted in the low band too.
IsLowInclusive(v) == 54 <= v /\ v <= 70

\* Mutant of IsInRange: the upper edge glucose_high is left out.
IsInRangeExclusive(v) == glucose_low <= v /\ v < glucose_high

\* server.py:114-121: the six band predicates.
IsVeryLow(v) == v < 54
IsLow(v) == 54 <= v /\ v < 70
IsInRange(v) == glucose_low <= v /\ v <= glucose_high
IsAboveTarget(v) == glucose_high < v /\ v <= 180
IsHigh(v) == 180 < v /\ v <= 250
IsVeryHigh(v) == v > 250

\* server.py:102-139.  avg, the percentages and a1c are in tenths; a count
\* sum(1 for v in sgv_values if ...) is the number of positions it holds at.  The
\* fields std_dev, cv and the two formatted strings are left out: they need
\* a square root and a unit conversion, and no property below reads them.
CalculateStats(vals) ==
    IF vals = <<>> THEN None
    ELSE LET n == Len(vals)
             total == SumSeq(vals)
         IN  [count |-> n,
              avg |-> Round1(total, n),
              min |-> MinSeq(vals),
              max |-> MaxSeq(vals),
              tir |-> Pct(Cardinality({k \in 1..n : IsInRange(vals[k])}), n),
              very_low_pct |-> Pct(Cardinality({k \in 1..n : IsVeryLow(vals[k])}), n),
              low_pct |-> Pct(Cardinality({k \in 1..n : IsLow(vals[k])}), n),
              above_target_pct |-> Pct(Cardinality({k \in 1..n : IsAboveTarget(vals[k])}), n),
              high_pct |-> Pct(Cardinality({k \in 1..n : IsHigh(vals[k])}), n),
              very_high_pct |-> Pct(Cardinality({k \in 1..n : IsVeryHigh(vals[k])}), n),
              \* (avg + 46.7) / 28.7 = (10 total + 467 n) / (287 n)
              a1c |-> Round1(10 * total + 467 * n, 287 * n)]

\* The raw values the statistics are tried on: missing (0), below the floor,
\* and the values around the band edges.
SgvValues == {0, 39, 50, 65, 70, 100, 140, 160, 200, 260}

\* The non-decreasing lists of n values of S that are at least lo.
RECURSIVE SortedSeqs(_, _, _)
SortedSeqs(S, n, lo) ==
    IF n = 0 THEN {<<>>}
    ELSE UNION { { <<v>> \o t : t \in SortedSeqs(S, n - 1, v) } :
                 v \in {w \in S : w >= lo} }

\* Lists of at most MaxN entries with these values, up to order (the two
\* functions read a list only through len, sum, min, max and counts).
StatsInputs ==
    UNION { { [k \in 1..n |-> MkRecord(k, k, f[k])] : f \in SortedSeqs(SgvValues, n, 0) } :
            n \in 0..MaxN }

\* server.py:456-457, 500-501, 569-570:
\*   sgv_values = filter_valid_sgv(entries); stats = calculate_stats(sgv_values)
ComputeStats ==
    /\ spc = "call"
    /\ sgv_values' = FilterValidSgv(all_entries)
    /\ stats' = CalculateStats(FilterValidSgv(all_entries))
    /\ spc' = "done"
    /\ UNCHANGED <<fetchVars, configVars, toolVars, histVars>>

----------------------------------------------------------------------------
(* parse_date_to_timestamp, server.py:142-162 *)

\* The tools' clock counts whole hours since 1970-01-01T00:00Z: the code's
\* millisecond timestamps divided by 3 600 000 (a millisecond count of today
\* does not fit the checker's integers).
HourTicks == 1           \* server.py:450  60 * 60 * 1000 ms
DayTicks == 24           \* server.py:152  "d": 86400000 ms
WeekTicks == 168         \* server.py:152  "w": 604800000 ms
MonthTicks == 720        \* server.py:152  "m": 2592000000 ms
YearTicks == 8760        \* server.py:152  "y": 31536000000 ms

\* A date expression is the sequence of its characters.
Digits == <<"0", "1", "2", "3", "4", "5", "6", "7", "8", "9">>
IsDigit(c) == \E k \in 1..10 : Digits[k] = c
DigitVal(c) == (CHOOSE k \in 1..10 : Digits[k] = c) - 1
AllDigits(s) == \A k \in 1..Len(s) : IsDigit(s[k])

\* int(s) of a string of digits.
RECURSIVE ToInt(_)
ToInt(s) ==
    IF s = <<>> THEN 0
    ELSE 10 * ToInt(SubSeq(s, 1, Len(s) - 1)) + DigitVal(s[Len(s)])

\* s.split("-")
RECURSIVE SplitDash(_)
SplitDash(s) ==
    IF \A k \in 1..Len(s) : s[k] # "-" THEN <<s>>
    ELSE LET p == CHOOSE k \in 1..Len(s) :
                     s[k] = "-" /\ \A j \in 1..(k - 1) : s[j] # "-"
         IN  <<SubSeq(s, 1, p - 1)>> \o SplitDash(SubSeq(s, p + 1, Len(s)))

IsLeap(y) == (y % 4 = 0 /\ y % 100 # 0) \/ y % 400 = 0

DaysInMonth(y, m) ==
    IF m = 2 THEN (IF IsLeap(y) THEN 29 ELSE 28)
    ELSE IF m \in {4, 6, 9, 11} THEN 30 ELSE 31

\* Days from 1970-01-01 to the date y-m-d of the proleptic Gregorian
\* calendar (what datetime(y, m, d, tzinfo=utc).timestamp() counts).
DaysFromCivil(y, m, d) ==
    LET yy == IF m <= 2 THEN y - 1 ELSE y
        era == yy \div 400
        yoe == yy - era * 400
        mp == IF m > 2 THEN m - 3 ELSE m + 9
        doy == (153 * mp + 2) \div 5 + d - 1
        doe == yoe * 365 + yoe \div 4 - yoe \div 100 + doy
    IN  era * 146097 + doe - 719468

\* int(datetime(y, m, d, tzinfo=timezone.utc).timestamp() * 1000)
DateTs(y, m, d) == DaysFromCivil(y, m, d) * DayTicks

\* server.py:147  re.match(r"^(\d+)([dwmy])$", date_str, re.I)
IsRelative(s) ==
    /\ Len(s) >= 2
    /\ AllDigits(SubSeq(s, 1, Len(s) - 1))
    /\ s[Len(s)] \in {"d", "w", "m", "y", "D", "W", "M", "Y"}

\* server.py:152  multipliers[unit], unit lower-cased
Multiplier(c) ==
    IF c \in {"d", "D"} THEN DayTicks
    ELSE IF c \in {"w", "W"} THEN WeekTicks
    ELSE IF c \in {"m", "M"} THEN MonthTicks
    ELSE YearTicks

\* server.py:156  re.match(r"^\d{4}-\d{2}$", date_str)
IsYearMonth(s) ==
    /\ Len(s) = 7
    /\ AllDigits(SubSeq(s, 1, 4))
    /\ s[5] = "-"
    /\ AllDigits(SubSeq(s, 6, 7))

\* A raised ValueError, and a returned timestamp.
ValueError == [ok |-> FALSE, ts |-> 0]
Ok(t) == [ok |-> TRUE, ts |-> t]

\* datetime.strptime(s, "%Y-%m-%d"): four digits of year, one or two of
\* month and of day, a date that exists.
Strptime(s) ==
    LET parts == SplitDash(s)
    IN  IF /\ Len(parts) = 3
           /\ Len(parts[1]) = 4 /\ AllDigits(parts[1])
           /\ Len(parts[2]) \in {1, 2} /\ AllDigits(parts[2])
           /\ Len(parts[3]) \in {1, 2} /\ AllDigits(parts[3])
           /\ ToInt(parts[1]) >= 1
           /\ ToInt(parts[2]) \in 1..12
           /\ ToInt(parts[3]) >= 1
           /\ ToInt(parts[3]) <= DaysInMonth(ToInt(parts[1]), ToInt(parts[2]))
        THEN Ok(DateTs(ToInt(parts[1]), ToInt(parts[2]), ToInt(parts[3])))
        ELSE ValueError

\* server.py:142-162
ParseDateToTimestamp(s, clock) ==
    IF IsRelative(s)
    THEN Ok(clock - ToInt(SubSeq(s, 1, Len(s) - 1)) * Multiplier(s[Len(s)]))
    ELSE IF IsYearMonth(s)
    THEN Strptime(s \o <<"-", "0", "1">>)
    ELSE Strptime(s)

----------------------------------------------------------------------------
(* The endpoint: NIGHTSCOUT_URL, parse_nightscout_url, NightscoutClient,
   server.py:13, 55-65, 168-173 *)

\* The positions of t in s.
Positions(s, t) ==
    UNION {{k \in 1..(Len(x) - Len(t) + 1) : SubSeq(x, k, k + Len(t) - 1) = t} :
              x \in {s}}

\* The first and the last position of t in s, 0 when t is not in s.
Find(s, t) ==
    CHOOSE p \in {IF at = {} THEN 0 ELSE CHOOSE k \in at : \A j \in at : k <= j :
                     at \in {Positions(s, t)}} : TRUE

RFind(s, t) ==
    CHOOSE p \in {IF at = {} THEN 0 ELSE CHOOSE k \in at : \A j \in at : k >= j :
                     at \in {Positions(s, t)}} : TRUE

\* The characters of a string.
Chars(s) == [k \in 1..Len(s) |-> SubSeq(s, k, k)]

\* urlparse(url_str) of a lower-case URL without query and fragment: the
\* scheme is what precedes the first colon, the netloc what follows "//" up
\* to the next "/", the user information what precedes the last "@" of the
\* netloc.  hostname, username, password and port are None when absent;
\* here "" is written for None, and has_port tells whether a port is there.
UrlParse(url) ==
    LET colon == Find(url, ":")
        scheme == IF colon > 1 THEN SubSeq(url, 1, colon - 1) ELSE ""
        rest == IF colon > 1 THEN SubSeq(url, colon + 1, Len(url)) ELSE url
        hasNetloc == Len(rest) >= 2 /\ SubSeq(rest, 1, 2) = "//"
        tail == IF hasNetloc THEN SubSeq(rest, 3, Len(rest)) ELSE ""
        slash == Find(tail, "/")
        netloc == IF slash = 0 THEN tail ELSE SubSeq(tail, 1, slash - 1)
        at == RFind(netloc, "@")
        userinfo == IF at = 0 THEN "" ELSE SubSeq(netloc, 1, at - 1)
        hostport == IF at = 0 THEN netloc ELSE SubSeq(netloc, at + 1, Len(netloc))
        ucolon == Find(userinfo, ":")
        hcolon == Find(hostport, ":")
    IN  [scheme |-> scheme,
         username |-> IF ucolon = 0 THEN userinfo
                      ELSE SubSeq(userinfo, 1, ucolon - 1),
         password |-> IF ucolon = 0 THEN ""
                      ELSE SubSeq(userinfo, ucolon + 1, Len(userinfo)),
         hostname |-> IF hcolon = 0 THEN hostport
                      ELSE SubSeq(hostport, 1, hcolon - 1),
         has_port |-> hcolon # 0 /\ hcolon < Len(hostport),
         port |-> IF hcolon = 0 THEN ""
                  ELSE SubSeq(hostport, hcolon + 1, Len(hostport))]

\* server.py:55-65.  parsed.port raises ValueError for a port that is not a
\* number up to 65535, and the except branch returns the string as it is.
\* f"{parsed.hostname}" of None is "None"; `if parsed.port` is false of 0.
ParseNightscoutUrl(url_str) ==
    LET parsed == UrlParse(url_str)
        digits == Chars(parsed.port)
    IN  IF parsed.has_port /\ (~AllDigits(digits) \/ ToInt(digits) > 65535)
        THEN [base_url |-> url_str, username |-> "", password |-> ""]
        ELSE [base_url |->
                 parsed.scheme \o "://"
                 \o (IF parsed.hostname = "" THEN "None" ELSE parsed.hostname)
                 \o (IF parsed.has_port /\ ToInt(digits) # 0
                     THEN ":" \o ToString(ToInt(digits)) ELSE ""),
              username |-> parsed.username,
              password |-> parsed.password]

\* The values NIGHTSCOUT_URL is tried with: not set (server.py:13 gives ""),
\* a host name without a scheme, and URLs of a Nightscout site.
Urls ==
    {"", "ns.example.com", "https://ns.example.com",
     "https://user:pw@ns.example.com:1337/"}

DefaultUrl == "https://ns.example.com"

\* server.py:168-173, 248: NightscoutClient.__init__ under NIGHTSCOUT_URL = u,
\* run once, when the module is loaded.
Configured(u) ==
    /\ nightscout_url = u
    /\ base_url = ParseNightscoutUrl(u).base_url

\* server.py:195-207  NightscoutClient.fetch
Fetch ==
    /\ pc = "fetch"
    /\ IF base_url = ""
       THEN /\ pc' = "raised"
            /\ exc' = "ValueError"
            /\ UNCHANGED <<entries, requests, failed_at>>
       ELSE /\ requests' = requests + 1
            /\ \/ /\ Reachable(base_url)
                  /\ \E page \in Latest(source, max_per_request) : entries' = page
                  /\ pc' = "done"
                  /\ UNCHANGED <<exc, failed_at>>
               \/ /\ pc' = "raised"
                  /\ exc' = RequestError(base_url)
                  /\ failed_at' = IF failed_at = 0 THEN requests + 1 ELSE failed_at
                  /\ UNCHANGED entries
    /\ UNCHANGED <<source, start_ts, end_ts, max_per_request, all_entries,
                   current_end, iter>>
    /\ UNCHANGED <<configVars, statsVars, toolVars, failed_months>>

----------------------------------------------------------------------------
(* The tools: call_tool, glucose_history, analyze, analyze_monthly,
   server.py:391-606 *)

MinEntries == 10         \* server.py:497  if len(entries) < 10

\* server.py:425-426: call_tool turns any exception into an "Error: ..." text.
ErrorOutcome(e) == [kind |-> "error", error |-> e]

Pending == [kind |-> "pending"]

\* Mutant of NotEnoughData: the threshold is 5.
NotEnoughDataFive(es) == Len(es) < 5

\* server.py:497  len(entries) < 10
NotEnoughData(es) == Len(es) < MinEntries

\* server.py:484-494: the end of the range analyze fetches.  `not to_date`
\* holds of None and of the empty string: both are the empty sequence here.
AnalyzeEnd(to, clock) ==
    IF to = <<>> THEN Ok(clock)
    ELSE LET parsed == ParseDateToTimestamp(to, clock)
         IN  IF ~parsed.ok THEN ValueError
             ELSE IF Len(to) = 7
             THEN LET parts == SplitDash(to)
                  IN  IF Len(parts) # 2 \/ ~AllDigits(parts[1]) \/ ~AllDigits(parts[2])
                      THEN ValueError   \* year, month = map(int, ...)
                      ELSE IF ToInt(parts[2]) = 12
                      THEN Ok(DateTs(ToInt(parts[1]) + 1, 1, 1))
                      ELSE Ok(DateTs(ToInt(parts[1]), ToInt(parts[2]) + 1, 1))
             ELSE IF Len(to) = 10
             THEN Ok(parsed.ts + DayTicks)
             ELSE parsed

\* server.py:558-565: the window of one month of analyze_monthly.
MonthStart(y, m) == DateTs(y, m, 1)
MonthEnd(y, m) == IF m = 12 THEN DateTs(y + 1, 1, 1) ELSE DateTs(y, m + 1, 1)

\* server.py:567-580: the table row of one month.
MonthRow(m) ==
    IF pc = "raised"
    THEN [month |-> m, kind |-> "error", error |-> exc]
    ELSE LET st == CalculateStats(FilterValidSgv(all_entries))
         IN  IF st # None /\ st.count > 0
             THEN [month |-> m, kind |-> "stats", stats |-> st]
             ELSE [month |-> m, kind |-> "no_data"]

\* server.py:572-573  results.append({"month": month, "stats": stats})
AddResult(res, row) ==
    IF row.kind = "stats"
    THEN Append(res, [month |-> row.month, stats |-> row.stats])
    ELSE res

\* server.py:582-606: the answer of analyze_monthly; the summary is there
\* when results is not empty.
MonthlyReport(rs, res) ==
    [kind |-> "monthly_report",
     rows |-> rs,
     months |-> Len(res),
     total_count |-> SumSeq([k \in 1..Len(res) |-> res[k].stats.count])]

FetchIdle ==
    /\ start_ts = 0 /\ end_ts = 0 /\ max_per_request = DefaultMaxPerRequest
    /\ all_entries = <<>> /\ current_end = 0 /\ iter = 0 /\ entries = <<>>
    /\ pc = "idle" /\ exc = "none"

\* server.py:448-452: glucose_history up to its fetch.
StartGlucoseHistory ==
    /\ tool = "glucose_history" /\ tpc = "start"
    /\ BeginFetch(source, now - args.hours * HourTicks, now,
                  DefaultMaxPerRequest)
    /\ tpc' = "fetch"
    /\ UNCHANGED <<configVars, statsVars, tool, now, args, month, rows, results,
                   outcome, histVars>>

\* server.py:453-479, with call_tool's except (server.py:425-426).
FinishGlucoseHistory ==
    /\ tool = "glucose_history" /\ tpc = "fetch" /\ pc \in {"done", "raised"}
    /\ IF pc = "raised"
       THEN /\ outcome' = ErrorOutcome(exc)
            /\ UNCHANGED <<sgv_values, stats>>
       ELSE IF all_entries = <<>>
       THEN /\ outcome' = [kind |-> "no_data"]
            /\ UNCHANGED <<sgv_values, stats>>
       ELSE /\ sgv_values' = FilterValidSgv(all_entries)
            /\ stats' = CalculateStats(sgv_values')
            /\ outcome' = IF stats' = None
                          THEN ErrorOutcome("TypeError")   \* stats['avg_formatted']
                          ELSE [kind |-> "report", readings |-> Len(sgv_values'),
                                stats |-> stats']
    /\ tpc' = "done"
    /\ UNCHANGED <<fetchVars, configVars, spc, tool, now, args, month, rows,
                   results, histVars>>

\* server.py:482-496: analyze up to its fetch; a date that does not parse
\* ends the call in call_tool's except.
StartAnalyze ==
    /\ tool = "analyze" /\ tpc = "start"
    /\ LET from == ParseDateToTimestamp(args.from, now)
           to == AnalyzeEnd(args.to, now)
       IN  IF from.ok /\ to.ok
           THEN /\ BeginFetch(source, from.ts, to.ts, DefaultMaxPerRequest)
                /\ tpc' = "fetch"
                /\ outcome' = outcome
           ELSE /\ outcome' = ErrorOutcome("ValueError")
                /\ tpc' = "done"
                /\ UNCHANGED fetchVars
    /\ UNCHANGED <<configVars, statsVars, tool, now, args, month, rows, results,
                   histVars>>

\* server.py:497-543, with call_tool's except.
FinishAnalyze ==
    /\ tool = "analyze" /\ tpc = "fetch" /\ pc \in {"done", "raised"}
    /\ IF pc = "raised"
       THEN /\ outcome' = ErrorOutcome(exc)
            /\ UNCHANGED <<sgv_values, stats>>
       ELSE IF NotEnoughData(all_entries)
       THEN /\ outcome' = [kind |-> "not_enough_data"]
            /\ UNCHANGED <<sgv_values, stats>>
       ELSE /\ sgv_values' = FilterValidSgv(all_entries)
            /\ stats' = CalculateStats(sgv_values')
            /\ outcome' = IF stats' = None
                          THEN ErrorOutcome("TypeError")   \* stats["tir"]
                          ELSE [kind |-> "report", readings |-> stats'.count,
                                stats |-> stats']
    /\ tpc' = "done"
    /\ UNCHANGED <<fetchVars, configVars, spc, tool, now, args, month, rows,
                   results, histVars>>

\* server.py:546-568: analyze_monthly up to the fetch of its first month.
StartMonthly ==
    /\ tool = "analyze_monthly" /\ tpc = "start"
    /\ month' = args.from_month
    /\ IF args.from_month <= args.to_month
       THEN /\ BeginFetch(source, MonthStart(args.year, args.from_month),
                          MonthEnd(args.year, args.from_month), DefaultMaxPerRequest)
            /\ tpc' = "fetch"
            /\ outcome' = outcome
       ELSE /\ outcome' = MonthlyReport(<<>>, <<>>)
            /\ tpc' = "done"
            /\ UNCHANGED fetchVars
    /\ UNCHANGED <<configVars, statsVars, tool, now, args, rows, results, histVars>>

\* server.py:567-580 for the month fetched, then the next month's fetch
\* (server.py:557-568) or the end of the call (server.py:582-606).
StepMonthly ==
    /\ tool = "analyze_monthly" /\ tpc = "fetch" /\ pc \in {"done", "raised"}
    /\ rows' = Append(rows, MonthRow(month))
    /\ results' = AddResult(results, MonthRow(month))
    /\ IF pc = "raised"
       THEN UNCHANGED <<sgv_values, stats>>
       ELSE /\ sgv_values' = FilterValidSgv(all_entries)
            /\ stats' = CalculateStats(sgv_values')
    /\ IF month < args.to_month
       THEN /\ month' = month + 1
            /\ BeginFetch(source, MonthStart(args.year, month + 1),
                          MonthEnd(args.year, month + 1), DefaultMaxPerRequest)
            /\ tpc' = "fetch"
            /\ outcome' = outcome
       ELSE /\ month' = month
            /\ outcome' = MonthlyReport(rows', results')
            /\ tpc' = "done"
            /\ UNCHANGED fetchVars
    /\ UNCHANGED <<configVars, spc, tool, now, args, histVars>>

----------------------------------------------------------------------------
(* Specification of a direct call of fetch_entries_in_range *)

NoTool ==
    /\ tool = "none" /\ tpc = "idle" /\ now = 0 /\ args = None /\ month = 0
    /\ rows = <<>> /\ results = <<>> /\ outcome = Pending
    /\ requests = 0 /\ failed_at = 0 /\ failed_months = {}

Init ==
    /\ server = "honest"
    /\ Configured(DefaultUrl)
    /\ \E x \in FetchInputs :
        /\ source = x.src
        /\ start_ts = x.start
        /\ end_ts = x.end
        /\ max_per_request = x.count
        /\ all_entries = <<>>
        /\ current_end = x.end
        /\ iter = 0
        /\ entries = <<>>
        /\ pc = "loop"
        /\ exc = "none"
        /\ glucose_low = DefaultLow
        /\ glucose_high = DefaultHigh
        /\ sgv_values = Unset
        /\ stats = Unset
        /\ spc = "idle"
        /\ NoTool

Next == FetchPage \/ FetchFail

Spec == Init /\ [][Next]_vars

----------------------------------------------------------------------------
(* Specification of one call of a method of the client, under every value
   of NIGHTSCOUT_URL *)

InitClient ==
    /\ server = "honest"
    /\ \E u \in Urls : Configured(u)
    /\ \E x \in SmallInputs, method \in {"loop", "fetch"} :
        /\ source = x.src
        /\ start_ts = x.start
        /\ end_ts = x.end
        /\ max_per_request = x.count
        /\ all_entries = <<>>
        /\ current_end = x.end
        /\ iter = 0
        /\ entries = <<>>
        /\ pc = method
        /\ exc = "none"
        /\ glucose_low = DefaultLow
        /\ glucose_high = DefaultHigh
        /\ sgv_values = Unset
        /\ stats = Unset
        /\ spc = "idle"
        /\ NoTool

NextClient == Fetch \/ FetchPage \/ FetchFail

SpecClient == InitClient /\ [][NextClient]_vars

----------------------------------------------------------------------------
(* Specification of one call of fetch_entries_in_range against a server
   that may misbehave.  Every await of the call ends: client.get is given
   timeout=30.0 (server.py:227), so each iteration is taken. *)

StubbornInputs ==
    { [src |-> DenseSource(n), start |-> a, end |-> n + 1, count |-> p] :
        n \in 1..MaxStubborn, a \in 0..1, p \in 1..2 }

InitStubborn ==
    /\ Configured(DefaultUrl)
    /\ \E mode \in ServerModes, x \in StubbornInputs :
        /\ server = mode
        /\ source = x.src
        /\ start_ts = x.start
        /\ end_ts = x.end
        /\ max_per_request = x.count
        /\ all_entries = <<>>
        /\ current_end = x.end
        /\ iter = 0
        /\ entries = <<>>
        /\ pc = "loop"
        /\ exc = "none"
        /\ glucose_low = DefaultLow
        /\ glucose_high = DefaultHigh
        /\ sgv_values = Unset
        /\ stats = Unset
        /\ spc = "idle"
        /\ NoTool

NextStubborn == FetchPage \/ FetchFail

SpecStubborn == InitStubborn /\ [][NextStubborn]_vars /\ WF_vars(NextStubborn)

----------------------------------------------------------------------------
(* Specification of one call of fetch_entries_in_range while other clients
   of the server insert entries *)

\* Ids of inserted entries start here; the entry inserted at date d has
\* id InsertedBase + d.
InsertedBase == 100

Inserted(src) == {r \in src : r.id >= InsertedBase}

\* Sources with pairwise distinct timestamps.
WriteInputs ==
    { [src |-> {MkRecord(d + 1, d, 100) : d \in D}, start |-> a, end |-> b,
       count |-> p] :
        D \in {E \in SUBSET (0..MaxWriteTs) : Cardinality(E) <= MaxInitial},
        a \in 0..MaxWriteTs, b \in 1..(MaxWriteTs + 1), p \in 1..2 }

InitWrites ==
    /\ server = "honest"
    /\ Configured(DefaultUrl)
    /\ \E x \in {y \in WriteInputs : y.start < y.end} :
        /\ source = x.src
        /\ start_ts = x.start
        /\ end_ts = x.end
        /\ max_per_request = x.count
        /\ all_entries = <<>>
        /\ current_end = x.end
        /\ iter = 0
        /\ entries = <<>>
        /\ pc = "loop"
        /\ exc = "none"
        /\ glucose_low = DefaultLow
        /\ glucose_high = DefaultHigh
        /\ sgv_values = Unset
        /\ stats = Unset
        /\ spc = "idle"
        /\ NoTool

\* Another client stores an entry, at a timestamp no stored entry has,
\* after the first page request and before the call has ended.
Insert ==
    /\ pc = "loop"
    /\ iter >= 1
    /\ Cardinality(Inserted(source)) < MaxInserts
    /\ \E d \in 0..MaxWriteTs :
         /\ \A r \in source : r.date # d
         /\ source' = source \cup {MkRecord(InsertedBase + d, d, 100)}
    /\ UNCHANGED <<start_ts, end_ts, max_per_request, all_entries, current_end,
                   iter, entries, pc, exc>>
    /\ UNCHANGED <<configVars, statsVars, toolVars, histVars>>

NextWrites == FetchPage \/ FetchFail \/ Insert

SpecWrites == InitWrites /\ [][NextWrites]_vars

----------------------------------------------------------------------------
(* Specification of the statistics of a fetched list *)

InitStats ==
    /\ server = "honest"
    /\ Configured(DefaultUrl)
    /\ source = {}
    /\ start_ts = 0
    /\ end_ts = 0
    /\ max_per_request = DefaultMaxPerRequest
    /\ all_entries \in StatsInputs
    /\ current_end = 0
    /\ iter = 0
    /\ entries = <<>>
    /\ pc = "done"
    /\ exc = "none"
    /\ \E t \in TargetRanges : glucose_low = t[1] /\ glucose_high = t[2]
    /\ sgv_values = Unset
    /\ stats = Unset
    /\ spc = "call"
    /\ NoTool

NextStats == ComputeStats

SpecStats == InitStats /\ [][NextStats]_vars

----------------------------------------------------------------------------
(* Specification of one call of a tool through call_tool *)

\* The clock of the call: 2024-03-15T07:00Z.
Clock == DateTs(2024, 3, 15) + 7 * HourTicks

\* What a window of the source holds: so many valid entries, so many
\* invalid ones (sgv missing or zero, or below the floor).
Profiles ==
    {p \in [valid : 0..MaxRaw, invalid : 0..MaxRaw, bad : {0, 39}] :
        p.valid + p.invalid <= MaxRaw /\ (p.invalid = 0 => p.bad = 0)}

MonthProfiles ==
    {[valid |-> 0, invalid |-> 0, bad |-> 0], [valid |-> 0, invalid |-> 2, bad |-> 39],
     [valid |-> 3, invalid |-> 1, bad |-> 0], [valid |-> 10, invalid |-> 0, bad |-> 0]}

ValidCycle == <<100, 50, 260, 70, 140, 200>>

\* The entries of profile p in the window [a, b), with one entry just below
\* the window and one at its end.
WindowRecords(base, a, b, p) ==
    LET span == IF b > a THEN b - a ELSE 1
    IN  {MkRecord(base + k, a + ((k - 1) % span),
                  IF k <= p.valid THEN ValidCycle[((k - 1) % 6) + 1] ELSE p.bad) :
            k \in 1..(p.valid + p.invalid)}
        \cup {MkRecord(base + 98, a - 1, 100), MkRecord(base + 99, b, 100)}

HistoryCalls == {[hours |-> h] : h \in {1, 6}}

FromExprs ==
    {<<"7", "d">>,
     <<"2", "0", "2", "4", "-", "0", "3">>,
     <<"2", "0", "2", "4", "-", "0", "3", "-", "0", "1">>,
     <<"s", "o", "o", "n">>}

ToExprs ==
    {<<>>,
     <<"1", "d">>,
     <<"2", "0", "2", "4", "-", "0", "3">>,
     <<"2", "0", "2", "3", "-", "1", "2">>,
     <<"2", "0", "2", "4", "-", "0", "3", "-", "1", "0">>,
     <<"2", "0", "2", "4", "-", "1", "3">>,
     <<"0", "0", "0", "0", "0", "1", "d">>,
     <<"0", "0", "0", "0", "0", "0", "0", "0", "1", "d">>}

AnalyzeCalls == {[from |-> f, to |-> t] : f \in FromExprs, t \in ToExprs}

MonthlyCalls ==
    {c \in [year : {2023, 2024}, from_month : {1, 2, 12}, to_month : 1..12] :
        c.to_month >= c.from_month - 1 /\ c.to_month < c.from_month + MaxMonths}

\* The window analyze fetches, [0, 0) when a date does not parse.
AnalyzeWindow(c) ==
    LET from == ParseDateToTimestamp(c.from, Clock)
        to == AnalyzeEnd(c.to, Clock)
    IN  IF from.ok /\ to.ok THEN <<from.ts, to.ts>> ELSE <<0, 0>>

InitCall(t, a, src) ==
    /\ source = src
    /\ FetchIdle
    /\ glucose_low = DefaultLow /\ glucose_high = DefaultHigh
    /\ sgv_values = Unset /\ stats = Unset /\ spc = "idle"
    /\ tool = t /\ tpc = "start" /\ now = Clock /\ args = a /\ month = 0
    /\ rows = <<>> /\ results = <<>> /\ outcome = Pending
    /\ requests = 0 /\ failed_at = 0 /\ failed_months = {}

InitToolCall ==
    \/ \E c \in HistoryCalls, p \in Profiles :
          InitCall("glucose_history", c,
                   WindowRecords(0, Clock - c.hours * HourTicks, Clock, p))
    \/ \E c \in AnalyzeCalls, p \in Profiles :
          InitCall("analyze", c,
                   WindowRecords(0, AnalyzeWindow(c)[1], AnalyzeWindow(c)[2], p))
    \/ \E c \in MonthlyCalls :
          \E f \in [c.from_month..c.to_month -> MonthProfiles] :
             InitCall("analyze_monthly", c,
                      UNION {WindowRecords(100 * m, MonthStart(c.year, m),
                                           MonthEnd(c.year, m), f[m]) :
                             m \in c.from_month..c.to_month})

InitTools ==
    /\ server = "honest"
    /\ Configured(DefaultUrl)
    /\ InitToolCall

NextTools ==
    \/ StartGlucoseHistory \/ FinishGlucoseHistory
    \/ StartAnalyze \/ FinishAnalyze
    \/ StartMonthly \/ StepMonthly
    \/ FetchPage \/ FetchFail

SpecTools == InitTools /\ [][NextTools]_vars

----------------------------------------------------------------------------
(* Properties of fetch_entries_in_range *)

\* The samples of the source in the window [start_ts, end_ts).
InWindow == Matching(source, start_ts, end_ts)

\* How many times entry r occurs in the returned list.
Occurrences(r) == Cardinality({k \in 1..Len(all_entries) : all_entries[k] = r})

Returned == pc = "done"

DistinctTimestamps ==
    \A r, q \in InWindow : r # q => r.date # q.date

\* ceil(n / p)
CeilDiv(n, p) == (n + p - 1) \div p

Min2(a, b) == IF a < b THEN a ELSE b

\* Every page request so far was answered with a full page whose oldest
\* timestamp is above start_ts.
NeverConverged ==
    /\ iter >= 1
    /\ exc = "none"
    /\ Len(entries) = max_per_request
    /\ OldestDate(entries) > start_ts

\* C1: when the window holds N samples with pairwise distinct timestamps and
\* the page size is below N, the returned list holds each of the N samples
\* exactly once and nothing else.
C1_Completeness ==
    (Returned /\ DistinctTimestamps /\ max_per_request < Cardinality(InWindow))
        => /\ \A r \in InWindow : Occurrences(r) = 1
           /\ Len(all_entries) = Cardinality(InWindow)

\* C2: a source sample dated end_ts is never in the returned list, and a
\* source sample dated start_ts is always in it.
C2_HalfOpen ==
    Returned =>
        \A r \in source :
            /\ r.date = end_ts => Occurrences(r) = 0
            /\ r.date = start_ts => Occurrences(r) >= 1

\* C3: when every page request is answered with a full page whose oldest
\* timestamp is above start_ts, the call goes on up to the 100th request and
\* then fails with PaginationOverrunError; it does not return a list.
C3_CircuitBreaker ==
    NeverConverged =>
        IF iter < MaxPages
        THEN pc = "loop"
        ELSE pc = "raised" /\ exc = "PaginationOverrunError"

\* C4 as stated: with N samples of distinct timestamps in the window and a
\* page size below N, the call returns after exactly ceil(N / pageSize) page
\* requests.
C4_PageCount ==
    (Returned /\ DistinctTimestamps /\ max_per_request < Cardinality(InWindow))
        => iter = CeilDiv(Cardinality(InWindow), max_per_request)

\* C4 as amended: the number of page requests is ceil(N / pageSize), plus one
\* (an empty last page) when N is a multiple of pageSize and the oldest sample
\* is newer than start_ts, and never more than 100.
ExpectedRequests ==
    LET n == Cardinality(InWindow)
        p == max_per_request
    IN  IF n % p = 0 /\ MinDate(InWindow) > start_ts
        THEN n \div p + 1
        ELSE CeilDiv(n, p)

C4_PageCountAmended ==
    (Returned /\ DistinctTimestamps /\ max_per_request < Cardinality(InWindow))
        => iter = Min2(MaxPages, ExpectedRequests)

\* C4 witness: a fetch of a window whose sample count is a multiple of the
\* page size, oldest sample newer than start_ts, has returned after one
\* request more than N / pageSize.
C4_Witness ==
    /\ Returned /\ DistinctTimestamps
    /\ max_per_request < Cardinality(InWindow)
    /\ Cardinality(InWindow) % max_per_request = 0
    /\ MinDate(InWindow) > start_ts
    /\ iter = Cardinality(InWindow) \div max_per_request + 1
    /\ entries = <<>>

\* C5: the returned list holds only samples of the window and no two
\* samples with the same timestamp.
C5_SampleSet ==
    Returned =>
        /\ \A k \in 1..Len(all_entries) :
              start_ts <= all_entries[k].date /\ all_entries[k].date < end_ts
        /\ \A k, m \in 1..Len(all_entries) :
              k # m => all_entries[k].date # all_entries[m].date

----------------------------------------------------------------------------
(* Properties of calculate_stats *)

Abs(x) == IF x < 0 THEN -x ELSE x

DefaultTarget == glucose_low = DefaultLow /\ glucose_high = DefaultHigh

StatsComputed == spc = "done" /\ stats # None /\ stats # Unset

\* The sum of the six band percentages, in tenths of a percent.
BandSum(st) ==
    st.very_low_pct + st.low_pct + st.tir + st.above_target_pct
        + st.high_pct + st.very_high_pct

\* C9 as stated: with the default target range the six band percentages sum
\* to a value within 0.1 of 100.
C9_BandCoverage ==
    (StatsComputed /\ DefaultTarget) => Abs(BandSum(stats) - 1000) <= 1

\* C9 as amended: with the default target range the six band percentages sum
\* to a value within 0.3 of 100 (six roundings of at most 0.05 each).
C9_BandCoverageAmended ==
    (StatsComputed /\ DefaultTarget) => Abs(BandSum(stats) - 1000) <= 3

\* C9 witness: statistics of a list with a sample in each of the six bands,
\* whose percentages sum to 100.2.
C9_Witness ==
    /\ StatsComputed /\ DefaultTarget
    /\ stats.count = 6
    /\ BandSum(stats) = 1002

\* The list of the scenario: [50, 70, 100, 140, 200, 260].
ScenarioValues == <<50, 70, 100, 140, 200, 260>>

Scenario ==
    /\ spc = "done"
    /\ DefaultTarget
    /\ sgv_values = ScenarioValues

\* C10 as stated: on [50, 70, 100, 140, 200, 260] with the default target the
\* statistics are count 6, mean 136.67, in-target 33.3 %, severe-low 16.7 %,
\* very-high 16.7 %, A1c 6.4.
C10_Scenario ==
    Scenario =>
        /\ stats.count = 6
        /\ RoundHalfEven(100 * SumSeq(sgv_values), Len(sgv_values)) = 13667
        /\ stats.tir = 333
        /\ stats.very_low_pct = 167
        /\ stats.very_high_pct = 167
        /\ stats.a1c = 64

\* C10 as amended: the same, with in-target 3/6 = 50.0 % (70, 100 and 140 lie
\* in [70, 140]) and the mean reported as avg = 136.7.
C10_ScenarioAmended ==
    Scenario =>
        /\ stats.count = 6
        /\ RoundHalfEven(100 * SumSeq(sgv_values), Len(sgv_values)) = 13667
        /\ stats.avg = 1367
        /\ stats.tir = 500
        /\ stats.very_low_pct = 167
        /\ stats.very_high_pct = 167
        /\ stats.a1c = 64

\* C10 witness: the statistics of the scenario's list have been computed.
C10_Witness == Scenario /\ stats # None /\ stats.count = 6

----------------------------------------------------------------------------
(* Properties of the tools *)

SingleFetchTool == tool \in {"glucose_history", "analyze"}

\* The valid samples among the entries fetched.
ValidFetched == FilterValidSgv(all_entries)

\* C6 as stated: in every tool the first failed page request ends the whole
\* call with an error: no request follows it and the call's outcome is an
\* error, with no statistics.
C6_NoRetryNoMasking ==
    failed_at > 0 =>
        /\ requests = failed_at
        /\ tpc = "done" => outcome.kind = "error"

\* C6 as amended: in glucose_history and analyze the first failed page
\* request ends the whole call with an error and no request follows it.  In
\* analyze_monthly it ends the fetch of that month only: the month is not
\* asked again, its row is an error row and no statistics are kept for it,
\* and the call goes on with the next month.
C6_NoRetryAmended ==
    /\ (SingleFetchTool /\ failed_at > 0) =>
          /\ requests = failed_at
          /\ tpc = "done" => outcome.kind = "error"
    /\ tool = "analyze_monthly" =>
          /\ \A k \in 1..Len(rows) : rows[k].month = args.from_month + k - 1
          /\ \A m \in failed_months :
                IF m = month /\ tpc = "fetch"
                THEN pc = "raised"
                ELSE /\ rows[m - args.from_month + 1].kind = "error"
                     /\ \A k \in 1..Len(results) : results[k].month # m
          /\ tpc = "done" =>
                /\ outcome.kind = "monthly_report"
                /\ outcome.rows = rows
                /\ Len(rows) = args.to_month - args.from_month + 1
                      \/ args.to_month < args.from_month

\* C6 witness: analyze_monthly has ended with a report in which a month
\* whose request failed is followed by a month with statistics.
C6_Witness ==
    /\ tool = "analyze_monthly" /\ tpc = "done"
    /\ failed_at > 0 /\ requests > failed_at
    /\ \E k \in 1..Len(rows) : \E j \in 1..Len(rows) :
          k < j /\ rows[k].kind = "error" /\ rows[j].kind = "stats"

\* C7: whatever raw samples the source returns, glucose_history and analyze
\* answer with a report or with a no-data / not-enough-data message, never
\* with an error, and the statistics of an empty filtered list are None.
C7_NoDataNotError ==
    (SingleFetchTool /\ tpc = "done" /\ pc = "done") =>
        /\ ValidFetched = <<>> => CalculateStats(ValidFetched) = None
        /\ outcome.kind \in {"report", "no_data", "not_enough_data"}

\* C8 as stated: no tool reports statistics of fewer than 10 valid samples;
\* with fewer than 10 valid samples in the window the outcome is the
\* non-error insufficient-data result.
C8_Threshold ==
    tpc = "done" =>
        /\ (SingleFetchTool /\ pc = "done") =>
              /\ outcome.kind = "report" => outcome.stats.count >= MinEntries
              /\ Len(ValidFetched) < MinEntries =>
                    outcome.kind \in {"no_data", "not_enough_data"}
        /\ tool = "analyze_monthly" =>
              \A k \in 1..Len(rows) :
                  rows[k].kind = "stats" => rows[k].stats.count >= MinEntries

\* C8, what the code guarantees instead: analyze answers "not enough data" when fewer than 10 raw
\* samples were fetched, and reports statistics only of 10 or more raw
\* samples; the count is of raw samples, so the statistics may rest on any
\* number of valid samples from 1 up.  glucose_history and analyze_monthly
\* have no threshold: they report statistics of any non-empty valid set.
C8_ThresholdAmended ==
    tpc = "done" =>
        /\ (tool = "analyze" /\ pc = "done") =>
              /\ Len(all_entries) < MinEntries => outcome.kind = "not_enough_data"
              /\ outcome.kind = "report" =>
                    /\ Len(all_entries) >= MinEntries
                    /\ outcome.stats.count = Len(ValidFetched)
                    /\ outcome.stats.count >= 1
        /\ (tool = "glucose_history" /\ pc = "done" /\ outcome.kind = "report") =>
              /\ outcome.stats.count = Len(ValidFetched)
              /\ outcome.stats.count >= 1
        /\ tool = "analyze_monthly" =>
              \A k \in 1..Len(rows) :
                  rows[k].kind = "stats" => rows[k].stats.count >= 1

\* C8 witness: analyze has reported statistics of fewer than 10 valid
\* samples, 10 or more raw samples having been fetched.
C8_Witness ==
    /\ tool = "analyze" /\ tpc = "done" /\ pc = "done"
    /\ Len(all_entries) >= MinEntries
    /\ outcome.kind = "report"
    /\ outcome.stats.count < MinEntries

----------------------------------------------------------------------------
(* End-of-range expansion in analyze *)

\* A full date YYYY-MM-DD: four digits, two digits, two digits.
IsFullDate(s) ==
    /\ Len(s) = 10
    /\ AllDigits(SubSeq(s, 1, 4)) /\ s[5] = "-"
    /\ AllDigits(SubSeq(s, 6, 7)) /\ s[8] = "-"
    /\ AllDigits(SubSeq(s, 9, 10))

\* The end boundary C11 states for the end expression to, at clock.
ExpandedEnd(to, clock) ==
    IF to = <<>> THEN clock
    ELSE IF IsRelative(to)
    THEN clock - ToInt(SubSeq(to, 1, Len(to) - 1)) * Multiplier(to[Len(to)])
    ELSE IF IsYearMonth(to)
    THEN LET y == ToInt(SubSeq(to, 1, 4))
             m == ToInt(SubSeq(to, 6, 7))
         IN  IF m = 12 THEN DateTs(y + 1, 1, 1) ELSE DateTs(y, m + 1, 1)
    ELSE Strptime(to).ts + DayTicks

\* The end expressions C11 speaks of: absent, relative, an existing
\* year-month, an existing full date.
EndInScope(to) ==
    \/ to = <<>>
    \/ IsRelative(to)
    \/ IsYearMonth(to) /\ ToInt(SubSeq(to, 6, 7)) \in 1..12
    \/ IsFullDate(to) /\ Strptime(to).ok

\* analyze has passed server.py:482-494 with a start expression that parses.
AnalyzeStarted ==
    /\ tool = "analyze" /\ tpc # "start"
    /\ ParseDateToTimestamp(args.from, now).ok

\* C11 as stated: in analyze a year-month end gives the first instant of the
\* following month, a full-date end midnight of the following day, and a
\* relative or absent end the resolved instant, not advanced.
C11_EndExpansion ==
    (AnalyzeStarted /\ EndInScope(args.to)) =>
        /\ outcome # ErrorOutcome("ValueError")
        /\ end_ts = ExpandedEnd(args.to, now)

\* C11, what the code guarantees instead: the statement holds of every end
\* expression but the relative ones of 7 or of 10 characters.
C11_EndExpansionByLength ==
    (AnalyzeStarted /\ EndInScope(args.to)
        /\ ~(IsRelative(args.to) /\ Len(args.to) \in {7, 10})) =>
        /\ outcome # ErrorOutcome("ValueError")
        /\ end_ts = ExpandedEnd(args.to, now)

\* A relative end of 10 characters has been advanced by a day.
C11_RelativeAdvanced ==
    /\ AnalyzeStarted /\ IsRelative(args.to) /\ Len(args.to) = 10
    /\ tpc = "fetch"
    /\ end_ts = ExpandedEnd(args.to, now) + DayTicks

\* A relative end of 7 characters has ended the call in an error.
C11_RelativeRejected ==
    /\ AnalyzeStarted /\ IsRelative(args.to) /\ Len(args.to) = 7
    /\ outcome = ErrorOutcome("ValueError")

----------------------------------------------------------------------------
(* Missing endpoint *)

\* A method of the client has ended, by returning or by raising.
ClientEnded == pc \in {"done", "raised"}

\* C12 as stated: with NIGHTSCOUT_URL empty every fetch, the single-request
\* one and the paginated one, fails with the configuration error (the
\* ValueError of server.py:197) before any request is made, and not with the
\* error of a failed request.
C12_MissingEndpoint ==
    (nightscout_url = "" /\ ClientEnded) =>
        /\ pc = "raised"
        /\ exc = "ValueError"
        /\ requests = 0

\* C12, what the code guarantees instead: with NIGHTSCOUT_URL empty no fetch
\* returns data; each ends at its first request, in the error the HTTP
\* client raises for a URL it cannot send to.
C12_MissingEndpointFails ==
    (nightscout_url = "" /\ ClientEnded) =>
        /\ pc = "raised"
        /\ exc = "UnsupportedProtocol"
        /\ requests = 1

\* With NIGHTSCOUT_URL empty the single-request fetch has passed its test of
\* base_url and failed in the request.
C12_FetchPassedTest ==
    /\ nightscout_url = "" /\ base_url = "://None"
    /\ iter = 0 /\ pc = "raised" /\ exc = "UnsupportedProtocol"

\* With NIGHTSCOUT_URL empty the paginated fetch has failed in its first
\* request.
C12_RangeFailedInRequest ==
    /\ nightscout_url = "" /\ iter = 1 /\ pc = "raised"
    /\ exc = "UnsupportedProtocol"

----------------------------------------------------------------------------
(* Mutually exclusive bands *)

\* The bands calculate_stats counts the value v in (server.py:114-121).
BandsOf(v) ==
    {b \in {"very_low", "low", "in_range", "above_target", "high", "very_high"} :
        \/ b = "very_low" /\ IsVeryLow(v)
        \/ b = "low" /\ IsLow(v)
        \/ b = "in_range" /\ IsInRange(v)
        \/ b = "above_target" /\ IsAboveTarget(v)
        \/ b = "high" /\ IsHigh(v)
        \/ b = "very_high" /\ IsVeryHigh(v)}

\* very_low + low + in_range + above_target + high + very_high
BandCountSum(vals) ==
    SumSeq([k \in 1..Len(vals) |-> Cardinality(BandsOf(vals[k]))])

\* C13 as stated: under every configured target range calculate_stats counts
\* each valid sample in at most one of the six bands, so the six counts sum
\* to at most n.
C13_ExclusiveBands ==
    StatsComputed =>
        /\ \A k \in 1..Len(sgv_values) : Cardinality(BandsOf(sgv_values[k])) <= 1
        /\ BandCountSum(sgv_values) <= stats.count

\* C13, what the code guarantees instead: the six bands are mutually
\* exclusive when 70 <= GLUCOSE_LOW and GLUCOSE_HIGH <= 180; under any target
\* range a sample is counted in at most two bands, the two being the target
\* range and one of [54,70), (180,250], <54, >250.
C13_ExclusiveWithinFixedBands ==
    StatsComputed =>
        /\ (glucose_low >= 70 /\ glucose_high <= 180) =>
              /\ \A k \in 1..Len(sgv_values) :
                    Cardinality(BandsOf(sgv_values[k])) <= 1
              /\ BandCountSum(sgv_values) <= stats.count
        /\ \A k \in 1..Len(sgv_values) :
              /\ Cardinality(BandsOf(sgv_values[k])) <= 2
              /\ Cardinality(BandsOf(sgv_values[k])) = 2 =>
                    "in_range" \in BandsOf(sgv_values[k])

\* With GLUCOSE_LOW below 70 a sample has been counted both as low and as in
\* range, and the percentages reported sum to more than 100.3.
C13_LowOverlap ==
    /\ StatsComputed /\ glucose_low < 70
    /\ \E k \in 1..Len(sgv_values) : {"low", "in_range"} \subseteq BandsOf(sgv_values[k])
    /\ BandSum(stats) > 1003

\* With GLUCOSE_HIGH above 180 a sample has been counted both as in range
\* and as high.
C13_HighOverlap ==
    /\ StatsComputed /\ glucose_high > 180
    /\ \E k \in 1..Len(sgv_values) : {"in_range", "high"} \subseteq BandsOf(sgv_values[k])
    /\ BandSum(stats) > 1003

----------------------------------------------------------------------------
(* Termination *)

\* The call of fetch_entries_in_range has ended, by returning or by raising.
Ended == pc \in {"done", "raised"}

\* Why the call ended: a failed request, an empty page, a short page, the
\* lower bound reached, or the ceiling of server.py:214.
ExitReason ==
    \/ pc = "raised" /\ exc # "none"
    \/ pc = "done" /\ entries = <<>>
    \/ pc = "done" /\ entries # <<>> /\ Len(entries) < max_per_request
    \/ pc = "done" /\ entries # <<>> /\ OldestDate(entries) <= start_ts
    \/ pc = "done" /\ iter = MaxPages

\* C14: whatever the server answers, every call of fetch_entries_in_range
\* eventually ends, by returning or by raising, after at most 100 page
\* requests, and it ends only for an empty page, a short page, the lower
\* bound reached, a failed request or the 100-request ceiling.
C14_Termination ==
    /\ [](iter <= MaxPages /\ requests <= MaxPages)
    /\ [](Ended => ExitReason)
    /\ [](~Ended => requests = iter /\ Len(all_entries) >= iter)
    /\ <>Ended

\* C14 witness: a server sending the same full page for ever has been asked
\* 100 times, and the call has returned the 100 pages.
C14_Witness ==
    /\ server = "ignores_filter" /\ pc = "done"
    /\ iter = MaxPages /\ requests = MaxPages
    /\ Len(entries) = max_per_request
    /\ OldestDate(entries) > start_ts
    /\ Len(all_entries) = MaxPages * max_per_request

----------------------------------------------------------------------------
(* Stability under concurrent writes *)

\* The samples that were in the window before the first page request.
InitialInWindow == InWindow \ Inserted(source)

\* C15: when entries are inserted between the page requests of a call and
\* all timestamps are pairwise distinct, the list returned before the
\* 100-request ceiling holds every sample that was in the window before the
\* first request exactly once, and an inserted sample is never in the list
\* more than once.
C15_StableUnderWrites ==
    /\ \A r \in Inserted(source) : Occurrences(r) <= 1
    /\ (Returned /\ iter < MaxPages) =>
          /\ \A r \in InitialInWindow : Occurrences(r) = 1
          /\ \A k \in 1..Len(all_entries) : all_entries[k] \in InWindow

\* C15 witness: the call has returned after two or more requests; one entry
\* inserted meanwhile is in the list next to the initial samples, another
\* one, inserted above the cursor, is in the window and not in the list.
C15_Witness ==
    /\ Returned /\ iter >= 2 /\ iter < MaxPages
    /\ Cardinality(InitialInWindow) >= 2
    /\ \E r \in Inserted(source) : Occurrences(r) = 1
    /\ \E r \in Inserted(source) \cap InWindow : Occurrences(r) = 0

====
